---------------------------- MODULE Spec2Model ----------------------------
(***************************************************************************)
(* Model of the research-agent orchestration engine                        *)
(* (src/src/orchestrator/orchestrator.py and the agents it drives).        *)
(*                                                                         *)
(* One ResearchOrchestrator owns one ResearcherAgent, one optional         *)
(* ValidatorAgent and one SynthesizerAgent.  Every research() invocation   *)
(* is an asyncio coroutine on that one orchestrator: it runs atomically    *)
(* from one await of a network call (language-model request, search-tool   *)
(* request) to the next, and coroutines of different invocations           *)
(* interleave at those awaits.  An action of the model is one such atomic  *)
(* segment: it consumes the outcome of the awaited call, runs the code up  *)
(* to the next await and issues the next request.                          *)
(*                                                                         *)
(* Credibility scores are kept in tenths (3 is 0.3) and the combined       *)
(* credibility in hundredths (0.6*s + 0.4*c is 6*s + 4*c).                 *)
(***************************************************************************)
EXTENDS Integers, Sequences, FiniteSets, TLC

(***************************************************************************)
(* Bounds of the model.                                                    *)
(***************************************************************************)
\* number of research() invocations made on the orchestrator
NumRuns == 2
\* largest number of search queries the language model returns in a plan
MaxQueries == 3
\* number of search queries of a plan when several invocations are in flight
ParallelQueries == 2
\* largest number of findings the language model returns
MaxFindings == 1

Runs == 1..NumRuns

(***************************************************************************)
(* Program constants.                                                      *)
(***************************************************************************)
\* orchestrator.py:130  depth == "quick"
QuickMaxSearches == 1
\* orchestrator.py:132  every other depth
ComprehensiveMaxSearches == 3
\* validator.py:232  source score on extraction failure (0.3)
DefaultSourceScore == 3
\* validator.py:311  content score on extraction failure (0.5)
DefaultContentScore == 5
\* validator.py:221, 301  score of an answer without "credibility_score" (0.5)
MissingScore == 5
\* validator.py:144, 145  weights of the combined credibility
SourceWeight == 6
ContentWeight == 4
\* base_agent.py:139  messages of the history sent with a request
HistoryLimit == 10
\* planner.py:199  number of tasks asked for, per complexity
SimpleMaxTasks == 2
ModerateMaxTasks == 4
ComplexMaxTasks == 6

Depths == {"quick", "comprehensive"}
Agents == {"Researcher", "Validator", "Synthesizer"}

\* values the caller passes as max_searches (test_full_system.py:43, 71;
\* quickstart uses larger ones)
MaxSearchesArgs == {1, 2, 5}
\* how the caller passes use_planner: not at all, True or False
PlannerArgs == {"absent", "true", "false"}

\* validator.py:234
SourceDiagnostic == "Unable to verify source credibility"
\* researcher.py:376
SummarySentinel == "No findings available to summarize."
\* synthesizer.py:257
InsightSentinel == "Unable to extract structured insights"

(***************************************************************************)
(* What the language-model service can answer.  A transport outcome makes  *)
(* call_llm raise; a text kind is the class of the returned text as        *)
(* json.loads and the field accesses of the call sites see it.             *)
(***************************************************************************)
TransportFailures == {"ClientError", "KeyError"}
TextKinds == {"object", "prose", "truncated", "array", "null_field", "bad_number"}
\* scores (tenths) a well-formed answer carries
ScoreValues == {2, 8}
Relevances == {"High", "Medium"}
Sources == {"nature.com", "techblog.example"}

VARIABLES
    args,           \* keyword arguments the caller constructs the orchestrator with
    api_key,        \* Agent.api_key is set (ANTHROPIC_API_KEY present)
    orch,           \* "new", "ready", or "TypeError" (construction raised)
    use_validation, \* ResearchOrchestrator.use_validation
    max_searches,   \* ResearcherAgent.max_searches (one attribute, shared by all runs)
    history,        \* Agent.conversation_history of each agent
    run,            \* the research() invocations
    batch,          \* the research_parallel() call
    planner,        \* a PlannerAgent and its plan() call
    calc            \* one call of a parsing or scoring helper: its input and result

vars == <<args, api_key, orch, use_validation, max_searches, history, run, batch, planner,
          calc>>

Min(a, b) == IF a <= b THEN a ELSE b

NoReport == [confidence_level |-> "unset", key_insights |-> "unset",
             contradictions |-> "unset", limitations |-> {}]

NewRun == [pc |-> "idle", query |-> 0, depth |-> "quick", exc |-> "none",
           planned |-> 0, issued |-> 0, collected |-> 0,
           findings |-> <<>>, summary |-> "unset", confidence |-> "unset",
           src_score |-> 0, src_concerns |-> "unset", score_found |-> <<>>,
           validated |-> <<>>, synth_validated |-> "unset",
           insights |-> "unset", report |-> NoReport,
           sent |-> 0, trace |-> <<>>]

NoBatch == [state |-> "none", queries |-> 0, valid_results |-> <<>>, failed_count |-> 0]

\* no helper call under way
NoCalc == [op |-> "none", stage |-> "none", site |-> "none", wrap |-> "none",
           payload |-> <<>>, text |-> <<>>, ok |-> FALSE,
           findings |-> <<>>, validated |-> <<>>,
           confidence |-> "unset", confidence_level |-> "unset"]

NewPlanner == [pc |-> "idle", exc |-> "none", complexity |-> "unset", max_tasks |-> 0,
               tasks_answer |-> "unset", tasks |-> <<>>, estimated_duration |-> "unset",
               history |-> <<>>, sent |-> 0]

Terminal(r) == run[r].pc \in {"returned", "raised"}


(***************************************************************************)
(* Agent.call_llm (base_agent.py:106-184)                                  *)
(***************************************************************************)
\* call_llm without the key check of base_agent.py:125-126
CallLlmCheck_NoCheck(key) == "ok"

\* base_agent.py:125-126: without a key call_llm raises before a request is built
CallLlmCheck(key) == IF key THEN "ok" ELSE "ValueError"

\* call_llm recording the prompt and losing the answer
AppendExchange_PromptOnly(h, r, about) ==
    h \o <<[role |-> "user", run |-> r, about |-> about]>>

\* base_agent.py:174-175: after a successful answer the prompt and the answer
\* are appended, with no await in between; r is the invocation the prompt
\* belongs to and about the finding it is about (0: the whole query)
AppendExchange(h, r, about) ==
    h \o <<[role |-> "user", run |-> r, about |-> about],
           [role |-> "assistant", run |-> r, about |-> about]>>

\* base_agent.py:136-141: the request carries the last HistoryLimit messages
\* of the agent's conversation history, followed by the new prompt
HistoryWindow(h) ==
    IF Len(h) <= HistoryLimit THEN h ELSE SubSeq(h, Len(h) - HistoryLimit + 1, Len(h))

\* base_agent.py:179-184: a transport failure is logged and re-raised
Raise(rec, e) == [rec EXCEPT !.pc = "raised", !.exc = e]

\* The part of call_llm that runs before its await: the key check, then the
\* request is posted and the coroutine waits at awaitPc.
IssueLlm(rec, awaitPc) ==
    IF CallLlmCheck(api_key) = "ok"
    THEN [rec EXCEPT !.pc = awaitPc, !.sent = @ + 1]
    ELSE Raise(rec, CallLlmCheck(api_key))

\* json.loads on the cleaned text of an answer
JsonLoads(kind) ==
    CASE kind \in {"prose", "truncated"} -> "JSONDecodeError"
      [] kind = "array" -> "list"
      [] OTHER -> "dict"

(***************************************************************************)
(* Deterministic scoring rules                                             *)
(***************************************************************************)
RECURSIVE SumSeq(_)
SumSeq(s) == IF s = <<>> THEN 0 ELSE Head(s) + SumSeq(Tail(s))

\* the overall_credibility values of a list of validation records
Overalls(validated) == [i \in 1..Len(validated) |-> validated[i].overall_credibility]

HighRelevance(findings) ==
    Cardinality({i \in 1..Len(findings) : findings[i].relevance = "High"})

\* a confidence that looks at the number of findings only
ResearcherAssessConfidence_CountOnly(findings) ==
    IF Len(findings) >= 3 THEN "High"
    ELSE IF Len(findings) >= 2 THEN "Medium"
    ELSE "Low"

\* ResearcherAgent._assess_confidence (researcher.py:405-424)
ResearcherAssessConfidence(findings) ==
    IF findings = <<>> THEN "Low"
    ELSE IF Len(findings) >= 3 /\ HighRelevance(findings) >= 2 THEN "High"
    ELSE IF Len(findings) >= 2 THEN "Medium"
    ELSE "Low"

\* orchestrator.py:163: an empty list of validation records is passed as None
SynthValidationArg(validated) == IF validated # <<>> THEN "list" ELSE "None"

\* SynthesizerAgent._identify_limitations (synthesizer.py:335-362);
\* validated = <<>> stands for a None or empty argument (both are falsy)
IdentifyLimitations(findings, validated) ==
    (IF Len(findings) < 3 THEN {"Limited number of sources consulted"} ELSE {})
    \cup (IF validated # <<>> /\ SumSeq(Overalls(validated)) < 60 * Len(validated)
          THEN {"Some sources have lower credibility scores"} ELSE {})
    \cup (IF 2 * Cardinality({findings[i].source : i \in 1..Len(findings)}) < Len(findings)
          THEN {"Limited source diversity"} ELSE {})

\* validation points that score a missing validation like a low credibility
CredibilityPoints_AbsentIsLow(validated) ==
    IF validated # <<>>
    THEN IF SumSeq(Overalls(validated)) >= 70 * Len(validated) THEN 2
         ELSE IF SumSeq(Overalls(validated)) >= 50 * Len(validated) THEN 1
         ELSE 0
    ELSE 0

\* the points the validation part of _assess_confidence adds (synthesizer.py:382-392)
CredibilityPoints(validated) ==
    IF validated # <<>>
    THEN IF SumSeq(Overalls(validated)) >= 70 * Len(validated) THEN 2
         ELSE IF SumSeq(Overalls(validated)) >= 50 * Len(validated) THEN 1
         ELSE 0
    ELSE 1

\* SynthesizerAgent._assess_confidence (synthesizer.py:364-399)
SynthAssessConfidence(findings, validated) ==
    IF findings = <<>> THEN "Low"
    ELSE LET score == (IF Len(findings) >= 4 THEN 2
                       ELSE IF Len(findings) >= 2 THEN 1 ELSE 0)
                      + CredibilityPoints(validated)
         IN  IF score >= 3 THEN "High"
             ELSE IF score >= 2 THEN "Medium"
             ELSE "Low"

\* SynthesizerAgent._prepare_findings_text (synthesizer.py:155-177): entry i
\* of the text is finding i, annotated with the overall credibility of
\* validation record i when there is one
PrepareFindingsText(findings, validated) ==
    [i \in 1..Len(findings) |->
        [finding |-> findings[i],
         annotated |-> validated # <<>> /\ i <= Len(validated),
         credibility |-> IF validated # <<>> /\ i <= Len(validated)
                         THEN validated[i].overall_credibility ELSE 0]]

\* validator.py:143-146
OverallCredibility(src, cnt) == SourceWeight * src + ContentWeight * cnt

\* validator.py:139-147: the validation record of one finding
ValidatedFinding(finding, src, concerns, cnt) ==
    [original_finding |-> finding,
     source_score |-> src, source_concerns |-> concerns,
     content_score |-> cnt,
     overall_credibility |-> OverallCredibility(src, cnt)]

\* the record put in front of the list instead of at its end
AppendRecord_Prepend(validated, rec) == <<rec>> \o validated

\* validator.py:149
AppendRecord(validated, rec) == Append(validated, rec)

(***************************************************************************)
(* The code between two awaits of one research() invocation                *)
(***************************************************************************)
Log(rec, ev) == [rec EXCEPT !.trace = Append(@, ev)]

\* orchestrator.py:158-164 and synthesizer.py:116-122: Step 3 starts, the
\* findings text is prepared and the executive summary is requested
StartSynthesis(rec) ==
    IssueLlm([Log(rec, "synthesizer_start")
                 EXCEPT !.synth_validated = SynthValidationArg(rec.validated)],
             "await_executive_summary")

\* orchestrator.py:143-156: Step 2 is run when validation is on and there are findings
ValidationWanted(rec) == use_validation /\ rec.findings # <<>>

\* Step 2 started but not awaited: Step 3 starts while the Validator runs
AfterResearch_NoAwait(rec) ==
    IF ValidationWanted(rec)
    THEN StartSynthesis(Log(Log(rec, "researcher_done"), "validator_start"))
    ELSE StartSynthesis(Log(rec, "researcher_done"))

\* orchestrator.py:138-164, after researcher.research() has returned
AfterResearch(rec) ==
    IF ValidationWanted(rec)
    THEN IssueLlm(Log(Log(rec, "researcher_done"), "validator_start"),
                  "await_evaluate_source")
    ELSE StartSynthesis(Log(rec, "researcher_done"))

\* researcher.py:175-192: confidence is assessed and the ResearchResult returned
FinishResearch(rec) ==
    AfterResearch([rec EXCEPT !.confidence = ResearcherAssessConfidence(rec.findings)])

\* researcher.py:173 and _generate_summary (375-376, 402): no findings give the
\* sentinel without a service call
AfterExtraction(rec) ==
    IF rec.findings = <<>>
    THEN FinishResearch([rec EXCEPT !.summary = SummarySentinel])
    ELSE IssueLlm(rec, "await_generate_summary")

\* _extract_findings without its early return for no raw results
AfterSearches_NoGuard(rec) == IssueLlm(rec, "await_extract_findings")

\* researcher.py:167-170 and _extract_findings (258-260, 312)
AfterSearches(rec) ==
    IF rec.collected = 0
    THEN AfterExtraction([rec EXCEPT !.findings = <<>>])
    ELSE IssueLlm(rec, "await_extract_findings")

\* the search loop leaving at the first search that collected nothing
\* instead of continuing
NextSearch_Break(rec) ==
    IF rec.issued < rec.planned /\ rec.collected = rec.issued
    THEN [rec EXCEPT !.pc = "await_search", !.issued = @ + 1]
    ELSE AfterSearches(rec)

\* researcher.py:143-150: the next planned search is started, or the loop ends
NextSearch(rec) ==
    IF rec.issued < rec.planned
    THEN [rec EXCEPT !.pc = "await_search", !.issued = @ + 1]
    ELSE AfterSearches(rec)


(***************************************************************************)
(* Initial state: a caller is about to construct the orchestrator.         *)
(***************************************************************************)
Init ==
    /\ args \in [use_validation : BOOLEAN, max_searches : MaxSearchesArgs,
                 use_planner : PlannerArgs]
    /\ api_key \in BOOLEAN
    /\ orch = "new"
    /\ use_validation = FALSE
    /\ max_searches = 0
    /\ history = [a \in Agents |-> <<>>]
    /\ run = [r \in Runs |-> NewRun]
    /\ batch = NoBatch
    /\ planner = NewPlanner
    /\ calc = NoCalc

\* ResearchOrchestrator.__init__ (orchestrator.py:72-104): the signature takes
\* search_provider, use_validation and max_searches only, so a call that also
\* passes use_planner raises TypeError before the body runs
InitAccepts(a) == a.use_planner = "absent"

OrchestratorInit ==
    /\ orch = "new"
    /\ IF InitAccepts(args)
       THEN /\ orch' = "ready"
            /\ use_validation' = args.use_validation
            /\ max_searches' = args.max_searches
       ELSE /\ orch' = "TypeError"
            /\ UNCHANGED <<use_validation, max_searches>>
    /\ UNCHANGED <<calc, planner, args, api_key, history, run, batch>>

\* a caller invokes research(query, depth) while other invocations may be in flight
CallResearch(r, d) ==
    /\ orch = "ready"
    /\ batch.state = "none"
    /\ run[r].pc = "idle"
    /\ run' = [run EXCEPT ![r] = [@ EXCEPT !.pc = "scheduled", !.query = r, !.depth = d]]
    /\ UNCHANGED <<calc, planner, args, api_key, orch, use_validation, max_searches, history, batch>>

\* research_parallel (orchestrator.py:215-218): one research(query, depth=depth)
\* coroutine per query, all handed to asyncio.gather; the queries are the runs
\* 1..k in input order, and query r is the r-th query of the input
ResearchParallel(k, d) ==
    /\ orch = "ready"
    /\ batch.state = "none"
    /\ \A r \in Runs : run[r].pc = "idle"
    /\ run' = [r \in Runs |-> IF r <= k THEN [run[r] EXCEPT !.pc = "scheduled", !.query = r,
                                                          !.depth = d]
                              ELSE run[r]]
    /\ batch' = [batch EXCEPT !.state = "gathering", !.queries = k]
    /\ UNCHANGED <<calc, planner, args, api_key, orch, use_validation, max_searches, history>>

\* the results of gather returned as they are, exceptions included
ValidResults_NoFilter(results) == results

\* the position of the last Synthesizer exchange of run r: a returned run
\* completed when its last request was answered
CompletedAt(r) ==
    LET h == history["Synthesizer"]
        at == {i \in 1..Len(h) : h[i].run = r}
    IN  IF at = {} THEN 0 ELSE CHOOSE i \in at : \A j \in at : j <= i

\* the successful results in the order in which their runs completed
ValidResults_AsCompleted(results) ==
    LET ok == {results[i] : i \in {j \in 1..Len(results) : run[results[j]].pc = "returned"}}
    IN  CHOOSE s \in [1..Cardinality(ok) -> ok] :
            /\ \A i, j \in 1..Cardinality(ok) : i < j => CompletedAt(s[i]) < CompletedAt(s[j])

\* orchestrator.py:221: the results that are OrchestrationResults, in input order
ValidResults(results) == SelectSeq(results, LAMBDA r : run[r].pc = "returned")

\* orchestrator.py:222
FailedCount(results, valid) == Len(results) - Len(valid)

\* research_parallel (orchestrator.py:218-228): gather(return_exceptions=True)
\* ends when every coroutine has returned or raised; exceptions are filtered out
GatherDone ==
    /\ batch.state = "gathering"
    /\ \A r \in 1..batch.queries : Terminal(r)
    /\ LET results == [i \in 1..batch.queries |-> i]
       IN  batch' = [batch EXCEPT !.state = "done",
                                  !.valid_results = ValidResults(results),
                                  !.failed_count =
                                      FailedCount(results, ValidResults(results))]
    /\ UNCHANGED <<calc, planner, args, api_key, orch, use_validation, max_searches, history, run>>

\* orchestrator.py:129-132
DepthMaxSearches(d) ==
    IF d = "quick" THEN QuickMaxSearches ELSE ComprehensiveMaxSearches

\* research() up to its first await (orchestrator.py:125-136, researcher.py:135-138,
\* 205-223): the shared max_searches is overwritten, then the search plan is requested
Research(r) ==
    /\ run[r].pc = "scheduled"
    /\ max_searches' = DepthMaxSearches(run[r].depth)
    /\ run' = [run EXCEPT ![r] = IssueLlm(Log(@, "researcher_start"), "await_plan_searches")]
    /\ UNCHANGED <<calc, planner, args, api_key, orch, use_validation, history, batch>>

\* a language-model request fails in transport (base_agent.py:179-184); the
\* call sites await call_llm outside their try blocks, so it leaves research()
LlmTransportFailure(r, e) ==
    /\ run[r].pc \in {"await_plan_searches", "await_extract_findings",
                      "await_generate_summary", "await_evaluate_source",
                      "await_validate_content", "await_executive_summary",
                      "await_key_insights", "await_detailed_analysis",
                      "await_contradictions"}
    /\ run' = [run EXCEPT ![r] = Raise(@, e)]
    /\ UNCHANGED <<calc, planner, args, api_key, orch, use_validation, max_searches, history, batch>>

\* _plan_searches after its call_llm (researcher.py:225-241): only
\* json.JSONDecodeError is caught; n is the number of queries in the answer
PlanSearchesResult(kind, n, ms) ==
    CASE JsonLoads(kind) = "JSONDecodeError" -> [exc |-> "none", planned |-> 1]
      [] JsonLoads(kind) = "list" -> [exc |-> "AttributeError", planned |-> 0]
      [] kind = "null_field" -> [exc |-> "TypeError", planned |-> 0]
      [] OTHER -> [exc |-> "none", planned |-> Min(n, ms)]

PlanSearchesResume(r, kind, n) ==
    /\ run[r].pc = "await_plan_searches"
    /\ history' = [history EXCEPT !["Researcher"] = AppendExchange(@, r, 0)]
    /\ LET res == PlanSearchesResult(kind, n, max_searches)
       IN  run' = [run EXCEPT ![r] =
                     IF res.exc # "none" THEN Raise(@, res.exc)
                     ELSE NextSearch([@ EXCEPT !.planned = Min(res.planned, max_searches)])]
    /\ UNCHANGED <<calc, planner, args, api_key, orch, use_validation, max_searches, batch>>

\* the search loop without its try/except: an exception of tool.search()
\* leaves research()
SearchResume_Propagates(r, outcome) ==
    /\ run[r].pc = "await_search"
    /\ run' = [run EXCEPT ![r] =
                 IF outcome = "raise" THEN Raise(@, "SearchError")
                 ELSE NextSearch([@ EXCEPT !.collected =
                                     IF outcome = "results" THEN @ + 1 ELSE @])]
    /\ UNCHANGED <<calc, planner, args, api_key, orch, use_validation, max_searches, history, batch>>

\* one tool.search() ends (researcher.py:145-163): an exception is logged and
\* skipped, an empty list is skipped, results are collected
SearchResume(r, outcome) ==
    /\ run[r].pc = "await_search"
    /\ run' = [run EXCEPT ![r] =
                 NextSearch([@ EXCEPT !.collected =
                                IF outcome = "results" THEN @ + 1 ELSE @])]
    /\ UNCHANGED <<calc, planner, args, api_key, orch, use_validation, max_searches, history, batch>>


\* the finding lists a well-formed extraction answer can carry
FindingLists ==
    UNION {[1..n -> [relevance : Relevances, source : Sources]] : n \in 0..MaxFindings}

\* _extract_findings after its call_llm (researcher.py:316-367): every
\* exception of the parsing is caught and gives []
ExtractFindingsResult(kind, fs) == IF kind = "object" THEN fs ELSE <<>>

ExtractFindingsResume(r, kind, fs) ==
    /\ run[r].pc = "await_extract_findings"
    /\ history' = [history EXCEPT !["Researcher"] = AppendExchange(@, r, 0)]
    /\ run' = [run EXCEPT ![r] =
                 AfterExtraction([@ EXCEPT !.findings = ExtractFindingsResult(kind, fs)])]
    /\ UNCHANGED <<calc, planner, args, api_key, orch, use_validation, max_searches, batch>>

\* _generate_summary after its call_llm (researcher.py:402-403)
GenerateSummaryResume(r) ==
    /\ run[r].pc = "await_generate_summary"
    /\ history' = [history EXCEPT !["Researcher"] = AppendExchange(@, r, 0)]
    /\ run' = [run EXCEPT ![r] = FinishResearch([@ EXCEPT !.summary = "summary text"])]
    /\ UNCHANGED <<calc, planner, args, api_key, orch, use_validation, max_searches, batch>>

\* The try blocks of _evaluate_source (validator.py:203-235) and
\* _validate_content (validator.py:283-313): json.JSONDecodeError and
\* ValueError reach the except branch, which gives the default score
\* (fallback); data.get on a list and float(None) raise AttributeError and
\* TypeError, which are not caught; an object without "credibility_score"
\* gets the default of data.get; any other number is taken as it is
\* the answer is a JSON object that carries a number under "credibility_score"
ScoreFound(kind) == kind = "object"

ScoreResult(kind, s, default) ==
    CASE JsonLoads(kind) = "JSONDecodeError" ->
             [exc |-> "none", score |-> default, fallback |-> TRUE]
      [] JsonLoads(kind) = "list" ->
             [exc |-> "AttributeError", score |-> 0, fallback |-> FALSE]
      [] kind = "null_field" ->
             [exc |-> "TypeError", score |-> 0, fallback |-> FALSE]
      [] kind = "bad_number" ->
             [exc |-> "none", score |-> default, fallback |-> TRUE]
      [] kind = "missing_field" ->
             [exc |-> "none", score |-> MissingScore, fallback |-> FALSE]
      [] OTHER -> [exc |-> "none", score |-> s, fallback |-> FALSE]

EvaluateSourceResume(r, kind, s) ==
    /\ run[r].pc = "await_evaluate_source"
    /\ history' = [history EXCEPT !["Validator"] =
                     AppendExchange(@, r, Len(run[r].validated) + 1)]
    /\ LET res == ScoreResult(kind, s, DefaultSourceScore)
       IN  run' = [run EXCEPT ![r] =
                     IF res.exc # "none" THEN Raise(@, res.exc)
                     ELSE IssueLlm([@ EXCEPT !.src_score = res.score,
                                             !.score_found = Append(@, ScoreFound(kind)),
                                             !.src_concerns =
                                                 IF res.fallback THEN SourceDiagnostic
                                                 ELSE "concerns of the answer"],
                                   "await_validate_content")]
    /\ UNCHANGED <<calc, planner, args, api_key, orch, use_validation, max_searches, batch>>

\* validate_findings (validator.py:124-156): the record of this finding is
\* appended; the next finding is evaluated or the list is returned to Step 3
AfterValidation(rec) ==
    IF Len(rec.validated) < Len(rec.findings)
    THEN IssueLlm(rec, "await_evaluate_source")
    ELSE StartSynthesis(Log(rec, "validator_done"))

ValidateContentResume(r, kind, s) ==
    /\ run[r].pc = "await_validate_content"
    /\ history' = [history EXCEPT !["Validator"] =
                     AppendExchange(@, r, Len(run[r].validated) + 1)]
    /\ LET res == ScoreResult(kind, s, DefaultContentScore)
       IN  run' = [run EXCEPT ![r] =
                     IF res.exc # "none" THEN Raise(@, res.exc)
                     ELSE AfterValidation(
                            [@ EXCEPT !.validated =
                                        AppendRecord(@,
                                            ValidatedFinding(run[r].findings[Len(@) + 1],
                                                             run[r].src_score,
                                                             run[r].src_concerns, res.score)),
                                      !.src_score = 0,
                                      !.src_concerns = "unset"])]
    /\ UNCHANGED <<calc, planner, args, api_key, orch, use_validation, max_searches, batch>>

\* _generate_executive_summary after its call_llm (synthesizer.py:201-202),
\* then _extract_key_insights up to its call_llm
ExecutiveSummaryResume(r) ==
    /\ run[r].pc = "await_executive_summary"
    /\ history' = [history EXCEPT !["Synthesizer"] = AppendExchange(@, r, 0)]
    /\ run' = [run EXCEPT ![r] = IssueLlm(@, "await_key_insights")]
    /\ UNCHANGED <<calc, planner, args, api_key, orch, use_validation, max_searches, batch>>

\* _extract_key_insights after its call_llm (synthesizer.py:235-257) and the
\* join over the insights in _generate_detailed_analysis (synthesizer.py:267):
\* only json.JSONDecodeError is caught; a null "insights" is returned as None
\* and the join over it raises TypeError
KeyInsightsResult(kind, empty) ==
    CASE JsonLoads(kind) = "JSONDecodeError" -> [exc |-> "none", insights |-> InsightSentinel]
      [] JsonLoads(kind) = "list" -> [exc |-> "AttributeError", insights |-> "unset"]
      [] kind = "null_field" -> [exc |-> "TypeError", insights |-> "None"]
      [] OTHER -> [exc |-> "none", insights |-> IF empty THEN "empty" ELSE "list"]

KeyInsightsResume(r, kind, empty) ==
    /\ run[r].pc = "await_key_insights"
    /\ history' = [history EXCEPT !["Synthesizer"] = AppendExchange(@, r, 0)]
    /\ LET res == KeyInsightsResult(kind, empty)
       IN  run' = [run EXCEPT ![r] =
                     IF res.exc # "none" THEN Raise(@, res.exc)
                     ELSE IssueLlm([@ EXCEPT !.insights = res.insights],
                                   "await_detailed_analysis")]
    /\ UNCHANGED <<calc, planner, args, api_key, orch, use_validation, max_searches, batch>>

\* _generate_detailed_analysis after its call_llm (synthesizer.py:287-288),
\* then _identify_contradictions up to its call_llm
DetailedAnalysisResume(r) ==
    /\ run[r].pc = "await_detailed_analysis"
    /\ history' = [history EXCEPT !["Synthesizer"] = AppendExchange(@, r, 0)]
    /\ run' = [run EXCEPT ![r] = IssueLlm(@, "await_contradictions")]
    /\ UNCHANGED <<calc, planner, args, api_key, orch, use_validation, max_searches, batch>>

\* _identify_contradictions after its call_llm (synthesizer.py:316-333)
ContradictionsResult(kind, empty) ==
    CASE JsonLoads(kind) = "JSONDecodeError" -> [exc |-> "none", contradictions |-> "empty"]
      [] JsonLoads(kind) = "list" -> [exc |-> "AttributeError", contradictions |-> "unset"]
      [] kind = "null_field" -> [exc |-> "none", contradictions |-> "None"]
      [] OTHER -> [exc |-> "none", contradictions |-> IF empty THEN "empty" ELSE "list"]

\* synthesizer.py:135-153 and orchestrator.py:165-196: the report is built
\* and research() returns its OrchestrationResult
FinishSynthesis(rec, contradictions) ==
    Log(Log([rec EXCEPT
               !.pc = "returned",
               !.report = [confidence_level |->
                               SynthAssessConfidence(rec.findings,
                                   IF rec.synth_validated = "list" THEN rec.validated ELSE <<>>),
                           key_insights |-> rec.insights,
                           contradictions |-> contradictions,
                           limitations |->
                               IdentifyLimitations(rec.findings,
                                   IF rec.synth_validated = "list" THEN rec.validated ELSE <<>>)]],
            "synthesizer_done"), "returned")

ContradictionsResume(r, kind, empty) ==
    /\ run[r].pc = "await_contradictions"
    /\ history' = [history EXCEPT !["Synthesizer"] = AppendExchange(@, r, 0)]
    /\ LET res == ContradictionsResult(kind, empty)
       IN  run' = [run EXCEPT ![r] =
                     IF res.exc # "none" THEN Raise(@, res.exc)
                     ELSE FinishSynthesis(@, res.contradictions)]
    /\ UNCHANGED <<calc, planner, args, api_key, orch, use_validation, max_searches, batch>>

StructuredKinds == TextKinds \ {"bad_number"}
SearchOutcomes == {"raise", "empty", "results"}

(***************************************************************************)
(* PlannerAgent (planner.py).  The orchestrator does not create one        *)
(* (C6); plan() is called on a PlannerAgent of its own, which reads the    *)
(* same credential from the environment.                                   *)
(***************************************************************************)
\* largest number of tasks in an answer of the language model
MaxTasksAnswered == 3

ComplexityTiers == {"simple", "moderate", "complex"}
\* what an answer can carry under "complexity": a tier or any other string
ComplexityAnswers == ComplexityTiers \cup {"very complex"}
TaskAgents == {"researcher", "validator"}

\* the task lists an answer can carry: each task names an agent and the ids
\* it depends on; tasks are numbered 1, 2, ... or carry no id, which gives
\* the same ids (planner.py:274)
TaskAnswers ==
    UNION {[1..n -> [agent : TaskAgents, dependencies : SUBSET (1..MaxTasksAnswered)]]
              : n \in 0..MaxTasksAnswered}

\* planner.py:199: the lookup raises KeyError for a string that is no tier
MaxTasksOf(complexity) ==
    CASE complexity = "simple" -> SimpleMaxTasks
      [] complexity = "moderate" -> ModerateMaxTasks
      [] complexity = "complex" -> ComplexMaxTasks

\* planner.py:289-298
FallbackTask ==
    [id |-> 1, description |-> "Research: query", agent |-> "researcher",
     dependencies |-> {}]

\* planner.py:271-284: one ResearchTask per entry of "tasks", fields as answered
BuildTasks(ts) ==
    [i \in 1..Len(ts) |->
        [id |-> i, description |-> "description of the answer",
         agent |-> ts[i].agent, dependencies |-> ts[i].dependencies]]

\* PlannerAgent._estimate_duration (planner.py:300-319)
EstimateDuration(tasks, complexity) ==
    LET base == CASE complexity = "simple" -> 15
                  [] complexity = "moderate" -> 30
                  [] complexity = "complex" -> 60
                  [] OTHER -> 30
        total == base + Len(tasks) * 10
    IN  IF total < 30 THEN "15-30 seconds"
        ELSE IF total < 60 THEN "30-60 seconds"
        ELSE IF total < 120 THEN "1-2 minutes"
        ELSE "2-5 minutes"

\* plan() up to its first await (planner.py:112-115, 147-170)
Plan ==
    /\ planner.pc = "idle"
    /\ planner' = IssueLlm(planner, "await_assess_complexity")
    /\ UNCHANGED <<calc, args, api_key, orch, use_validation, max_searches, history, run, batch>>

\* a request of the Planner fails in transport (base_agent.py:179-184)
PlannerTransportFailure(e) ==
    /\ planner.pc \in {"await_assess_complexity", "await_generate_tasks"}
    /\ planner' = Raise(planner, e)
    /\ UNCHANGED <<calc, args, api_key, orch, use_validation, max_searches, history, run, batch>>

\* _assess_complexity after its call_llm (planner.py:172-193): only
\* json.JSONDecodeError is caught; a null "complexity" is returned as None
AssessComplexityResult(kind, c) ==
    CASE JsonLoads(kind) = "JSONDecodeError" -> [exc |-> "none", complexity |-> "moderate"]
      [] JsonLoads(kind) = "list" -> [exc |-> "AttributeError", complexity |-> "unset"]
      [] kind = "null_field" -> [exc |-> "none", complexity |-> "None"]
      [] OTHER -> [exc |-> "none", complexity |-> c]

\* _generate_tasks up to its await (planner.py:199-254)
GenerateTasksStart(rec) ==
    IF rec.complexity \in ComplexityTiers
    THEN IssueLlm([rec EXCEPT !.max_tasks = MaxTasksOf(rec.complexity)],
                  "await_generate_tasks")
    ELSE Raise(rec, "KeyError")

AssessComplexityResume(kind, c) ==
    /\ planner.pc = "await_assess_complexity"
    /\ LET res == AssessComplexityResult(kind, c)
           rec == [planner EXCEPT !.history = AppendExchange(@, 0, 0)]
       IN  planner' = IF res.exc # "none" THEN Raise(rec, res.exc)
                      ELSE GenerateTasksStart([rec EXCEPT !.complexity = res.complexity])
    /\ UNCHANGED <<calc, args, api_key, orch, use_validation, max_searches, history, run, batch>>

\* _generate_tasks after its call_llm (planner.py:256-298): only
\* json.JSONDecodeError is caught and gives the fallback task; a null "tasks"
\* makes the loop raise TypeError; every task of the answer is kept as it is
GenerateTasksResult(kind, ts) ==
    CASE JsonLoads(kind) = "JSONDecodeError" -> [exc |-> "none", tasks |-> <<FallbackTask>>]
      [] JsonLoads(kind) = "list" -> [exc |-> "AttributeError", tasks |-> <<>>]
      [] kind = "null_field" -> [exc |-> "TypeError", tasks |-> <<>>]
      [] OTHER -> [exc |-> "none", tasks |-> BuildTasks(ts)]

\* what the answer to the task request was
TasksAnswer(kind, ts) ==
    IF JsonLoads(kind) = "JSONDecodeError" THEN "undecodable"
    ELSE IF ts = <<>> THEN "empty" ELSE "tasks"

\* _generate_tasks returns and plan() builds the ResearchPlan (planner.py:118-142)
GenerateTasksResume(kind, ts) ==
    /\ planner.pc = "await_generate_tasks"
    /\ LET res == GenerateTasksResult(kind, ts)
           rec == [planner EXCEPT !.history = AppendExchange(@, 0, 0)]
       IN  planner' = IF res.exc # "none" THEN Raise(rec, res.exc)
                      ELSE [rec EXCEPT !.pc = "returned",
                                       !.tasks_answer = TasksAnswer(kind, ts),
                                       !.tasks = res.tasks,
                                       !.estimated_duration =
                                           EstimateDuration(res.tasks, rec.complexity)]
    /\ UNCHANGED <<calc, args, api_key, orch, use_validation, max_searches, history, run, batch>>

(***************************************************************************)
(* Time limits of the network calls.  A call that is never answered ends   *)
(* when its total time limit expires, with an exception raised at the      *)
(* await.                                                                  *)
(***************************************************************************)
\* the session created as aiohttp.ClientSession(timeout=ClientTimeout(total=None))
SessionTimeout_Disabled == "none"

\* base_agent.py:162: call_llm creates its session as aiohttp.ClientSession()
\* with no timeout argument, which leaves the library's default total time
\* limit of a request (connect, send and read) in force
SessionTimeout == "total"

\* web_search.py:57, 61, 141, 193: Tavily and Serper requests are posted with
\* ClientTimeout(total=self.timeout); web_search.py:231: AsyncDDGS() is
\* created with its default time limit
ToolTimeout == "total"

\* the time limit of a language-model request expires: asyncio.TimeoutError
\* is raised inside call_llm (base_agent.py:162-165), passes its except
\* clauses (179-184) and leaves research() like any exception of call_llm
LlmTimeout(r) ==
    /\ SessionTimeout = "total"
    /\ LlmTransportFailure(r, "TimeoutError")

\* the time limit of a search expires: the exception is re-raised by
\* WebSearchTool.search (web_search.py:109-111) and caught by the search
\* loop (researcher.py:160-163)
SearchTimeout(r) ==
    /\ ToolTimeout = "total"
    /\ SearchResume(r, "raise")

(***************************************************************************)
(* Spec: one research() invocation (called directly or as a batch of one   *)
(* query) against every answer the service and the search tool can give.   *)
(***************************************************************************)
SoloRuns == {r \in Runs : r <= 1}

Next ==
    \/ OrchestratorInit
    \/ \E r \in SoloRuns, d \in Depths : CallResearch(r, d)
    \/ \E k \in SoloRuns, d \in Depths : ResearchParallel(k, d)
    \/ GatherDone
    \/ \E r \in SoloRuns : Research(r)
    \/ \E r \in SoloRuns, e \in TransportFailures : LlmTransportFailure(r, e)
    \/ \E r \in SoloRuns, kind \in StructuredKinds, n \in 0..MaxQueries :
          PlanSearchesResume(r, kind, n)
    \/ \E r \in SoloRuns, outcome \in SearchOutcomes : SearchResume(r, outcome)
    \/ \E r \in SoloRuns, kind \in StructuredKinds, fs \in FindingLists :
          ExtractFindingsResume(r, kind, fs)
    \/ \E r \in SoloRuns : GenerateSummaryResume(r)
    \/ \E r \in SoloRuns, kind \in TextKinds, s \in ScoreValues :
          EvaluateSourceResume(r, kind, s)
    \/ \E r \in SoloRuns, kind \in TextKinds, s \in ScoreValues :
          ValidateContentResume(r, kind, s)
    \/ \E r \in SoloRuns : ExecutiveSummaryResume(r)
    \/ \E r \in SoloRuns, kind \in StructuredKinds, empty \in BOOLEAN :
          KeyInsightsResume(r, kind, empty)
    \/ \E r \in SoloRuns : DetailedAnalysisResume(r)
    \/ \E r \in SoloRuns, kind \in StructuredKinds, empty \in BOOLEAN :
          ContradictionsResume(r, kind, empty)

Spec == Init /\ [][Next]_vars

(***************************************************************************)
(* SpecParallel: NumRuns invocations in flight on one orchestrator, either *)
(* fanned out by research_parallel or called one by one with any depths.   *)
(* The service answers a well-formed object or fails in transport, a       *)
(* search returns results or raises.                                       *)
(***************************************************************************)
InitParallel ==
    /\ Init
    /\ args = [use_validation |-> FALSE, max_searches |-> 1, use_planner |-> "absent"]

ParallelFindings == {fs \in FindingLists : \A i \in 1..Len(fs) :
                        fs[i] = [relevance |-> "High", source |-> "nature.com"]}

NextParallel ==
    \/ OrchestratorInit
    \/ \E r \in Runs, d \in Depths : CallResearch(r, d)
    \/ \E d \in Depths : ResearchParallel(NumRuns, d)
    \/ GatherDone
    \/ \E r \in Runs : Research(r)
    \/ \E r \in Runs : LlmTransportFailure(r, "ClientError")
    \/ \E r \in Runs : PlanSearchesResume(r, "object", ParallelQueries)
    \/ \E r \in Runs, outcome \in {"raise", "results"} : SearchResume(r, outcome)
    \/ \E r \in Runs, fs \in ParallelFindings : ExtractFindingsResume(r, "object", fs)
    \/ \E r \in Runs : GenerateSummaryResume(r)
    \/ \E r \in Runs : ExecutiveSummaryResume(r)
    \/ \E r \in Runs : KeyInsightsResume(r, "object", FALSE)
    \/ \E r \in Runs : DetailedAnalysisResume(r)
    \/ \E r \in Runs : ContradictionsResume(r, "object", TRUE)

SpecParallel == InitParallel /\ [][NextParallel]_vars

(***************************************************************************)
(* SpecValidation: one invocation with validation on, a credential and     *)
(* well-formed Researcher and Synthesizer answers; the Validator gets      *)
(* several findings and every kind of answer, with scores inside and       *)
(* outside the scale the prompt asks for.                                  *)
(***************************************************************************)
\* largest number of findings handed to the Validator
MaxValidated == 2

\* credibility_score values (tenths) of an answer: the prompt asks for 0.0 to
\* 1.0, the service may send any number (-0.2, 0.8, 1.5)
ScoreAnswers == {-2, 8, 15}

ScoreKinds == TextKinds \cup {"missing_field"}

ValidationFindings ==
    UNION {[1..n -> [relevance : {"High"}, source : Sources]] : n \in 0..MaxValidated}

InitValidation ==
    /\ Init
    /\ args = [use_validation |-> TRUE, max_searches |-> 1, use_planner |-> "absent"]
    /\ api_key = TRUE

NextValidation ==
    \/ OrchestratorInit
    \/ \E r \in SoloRuns : CallResearch(r, "quick")
    \/ \E r \in SoloRuns : Research(r)
    \/ \E r \in SoloRuns : PlanSearchesResume(r, "object", 1)
    \/ \E r \in SoloRuns : SearchResume(r, "results")
    \/ \E r \in SoloRuns, fs \in ValidationFindings : ExtractFindingsResume(r, "object", fs)
    \/ \E r \in SoloRuns : GenerateSummaryResume(r)
    \/ \E r \in SoloRuns, kind \in ScoreKinds, s \in ScoreAnswers :
          EvaluateSourceResume(r, kind, s)
    \/ \E r \in SoloRuns, kind \in ScoreKinds, s \in ScoreAnswers :
          ValidateContentResume(r, kind, s)
    \/ \E r \in SoloRuns : ExecutiveSummaryResume(r)
    \/ \E r \in SoloRuns : KeyInsightsResume(r, "object", FALSE)
    \/ \E r \in SoloRuns : DetailedAnalysisResume(r)
    \/ \E r \in SoloRuns : ContradictionsResume(r, "object", TRUE)

SpecValidation == InitValidation /\ [][NextValidation]_vars

(***************************************************************************)
(* SpecPlanner: one plan() call against every answer of the service.       *)
(***************************************************************************)
InitPlanner ==
    /\ Init
    /\ args = [use_validation |-> FALSE, max_searches |-> 1, use_planner |-> "absent"]

NextPlanner ==
    \/ Plan
    \/ \E e \in TransportFailures : PlannerTransportFailure(e)
    \/ \E kind \in StructuredKinds, c \in ComplexityAnswers : AssessComplexityResume(kind, c)
    \/ \E kind \in StructuredKinds, ts \in TaskAnswers : GenerateTasksResume(kind, ts)

SpecPlanner == InitPlanner /\ [][NextPlanner]_vars

(***************************************************************************)
(* SpecTimeout: one invocation against a service and a search tool that    *)
(* may answer or stay silent.  Nothing obliges the service or the tool to  *)
(* answer; what is certain is that the event loop runs a scheduled         *)
(* coroutine and that a time limit in force expires.                       *)
(***************************************************************************)
NextTimeout ==
    \/ OrchestratorInit
    \/ \E r \in SoloRuns, d \in Depths : CallResearch(r, d)
    \/ \E r \in SoloRuns : Research(r)
    \/ \E r \in SoloRuns : LlmTimeout(r)
    \/ \E r \in SoloRuns : SearchTimeout(r)
    \/ \E r \in SoloRuns, n \in 1..MaxQueries : PlanSearchesResume(r, "object", n)
    \/ \E r \in SoloRuns : SearchResume(r, "results")
    \/ \E r \in SoloRuns, fs \in FindingLists : ExtractFindingsResume(r, "object", fs)
    \/ \E r \in SoloRuns : GenerateSummaryResume(r)
    \/ \E r \in SoloRuns, s \in ScoreValues : EvaluateSourceResume(r, "object", s)
    \/ \E r \in SoloRuns, s \in ScoreValues : ValidateContentResume(r, "object", s)
    \/ \E r \in SoloRuns : ExecutiveSummaryResume(r)
    \/ \E r \in SoloRuns : KeyInsightsResume(r, "object", FALSE)
    \/ \E r \in SoloRuns : DetailedAnalysisResume(r)
    \/ \E r \in SoloRuns : ContradictionsResume(r, "object", TRUE)

FairTimeout ==
    \A r \in SoloRuns :
        /\ WF_vars(Research(r))
        /\ WF_vars(LlmTimeout(r))
        /\ WF_vars(SearchTimeout(r))

SpecTimeout == Init /\ [][NextTimeout]_vars /\ FairTimeout


(***************************************************************************)
(* Properties                                                              *)
(***************************************************************************)
IsPrefix(s, t) == Len(s) <= Len(t) /\ \A i \in 1..Len(s) : s[i] = t[i]

Occurrences(t, ev) == Cardinality({i \in 1..Len(t) : t[i] = ev})

Last(t) == IF t = <<>> THEN "none" ELSE t[Len(t)]

ResearcherAwaits == {"await_plan_searches", "await_search", "await_extract_findings",
                     "await_generate_summary"}
ValidatorAwaits == {"await_evaluate_source", "await_validate_content"}
SynthesizerAwaits == {"await_executive_summary", "await_key_insights",
                      "await_detailed_analysis", "await_contradictions"}

PipelineWithValidator ==
    <<"researcher_start", "researcher_done", "validator_start", "validator_done",
      "synthesizer_start", "synthesizer_done", "returned">>
PipelineWithoutValidator ==
    <<"researcher_start", "researcher_done",
      "synthesizer_start", "synthesizer_done", "returned">>

\* C1: within one research() invocation the stages run one after the other
\* and each at most once: the stage events of a run are a prefix of
\* Researcher, Validator (optional), Synthesizer, return; a run that waits
\* for a call of a stage has started that stage and not yet ended it; and a
\* run is returned only with the whole sequence behind it.
C1_StagesSequentialOnce ==
    \A r \in Runs :
        /\ \/ IsPrefix(run[r].trace, PipelineWithValidator)
           \/ IsPrefix(run[r].trace, PipelineWithoutValidator)
        /\ run[r].pc \in ResearcherAwaits => Last(run[r].trace) = "researcher_start"
        /\ run[r].pc \in ValidatorAwaits => Last(run[r].trace) = "validator_start"
        /\ run[r].pc \in SynthesizerAwaits => Last(run[r].trace) = "synthesizer_start"
        /\ run[r].pc = "returned" =>
              run[r].trace \in {PipelineWithValidator, PipelineWithoutValidator}

\* a run has gone through Researcher, Validator and Synthesizer and returned
C1_Witness == \E r \in Runs : run[r].trace = PipelineWithValidator

Raised(k) == {r \in 1..k : run[r].pc = "raised"}

\* C2: when research_parallel returns, every run of the batch has ended, the
\* returned list holds exactly the runs that returned (none that raised), its
\* length is the number of queries minus the number of runs that raised, and
\* the failure count is the number of runs that raised.
C2_BatchIsolatesFailures ==
    batch.state = "done" =>
        /\ \A r \in 1..batch.queries : Terminal(r)
        /\ \A r \in 1..batch.queries :
              (run[r].pc = "returned") <=>
                  (\E i \in 1..Len(batch.valid_results) : batch.valid_results[i] = r)
        /\ \A i \in 1..Len(batch.valid_results) :
              run[batch.valid_results[i]].pc = "returned"
        /\ Len(batch.valid_results) = batch.queries - Cardinality(Raised(batch.queries))
        /\ batch.failed_count = Cardinality(Raised(batch.queries))

\* a batch has ended with one run that raised and one that returned
C2_Witness ==
    /\ batch.state = "done"
    /\ batch.failed_count = 1
    /\ Len(batch.valid_results) >= 1

\* run r has issued searches, they are over and have collected no tool result
ZeroToolResults(r) ==
    /\ run[r].issued >= 1
    /\ run[r].summary # "unset"
    /\ run[r].collected = 0

\* C3: a run whose searches yield zero tool results has no findings, the
\* sentinel summary and Low research confidence, does not raise, and returns
\* a report of Low confidence.
C3_ZeroResultsCompletes ==
    \A r \in Runs : ZeroToolResults(r) =>
        /\ run[r].findings = <<>>
        /\ run[r].summary = SummarySentinel
        /\ run[r].confidence = "Low"
        /\ run[r].pc # "raised"
        /\ run[r].pc = "returned" => run[r].report.confidence_level = "Low"

\* C4: a run invoked with depth=quick plans and issues at most one search,
\* also while other invocations are in flight on the same orchestrator.
C4_QuickIssuesOneSearch ==
    \A r \in Runs : run[r].depth = "quick" =>
        /\ run[r].planned <= QuickMaxSearches
        /\ run[r].issued <= QuickMaxSearches

\* C5: a run invoked with depth=comprehensive is limited by the max_searches
\* the orchestrator was constructed with: it plans and issues no more
\* searches than that value.
C5_ComprehensiveUsesConfigured ==
    \A r \in Runs : run[r].depth = "comprehensive" =>
        /\ run[r].planned <= args.max_searches
        /\ run[r].issued <= args.max_searches

\* C6: with the planner enabled in the configuration the orchestrator is
\* constructed, and a returned run has executed the Planner exactly once,
\* before the Researcher; with the planner not enabled no Planner call is made.
C6_PlannerRunsOnce ==
    /\ args.use_planner = "true" =>
          /\ orch # "TypeError"
          /\ \A r \in Runs : run[r].pc = "returned" =>
                /\ Occurrences(run[r].trace, "planner_start") = 1
                /\ Head(run[r].trace) = "planner_start"
    /\ args.use_planner # "true" =>
          \A r \in Runs : Occurrences(run[r].trace, "planner_start") = 0

\* C7: with a credential configured and validation disabled, a run never
\* enters the Validator, has no validation records, hands None to the
\* Synthesizer, reports no credibility limitation, counts the neutral one
\* point for credibility, and does not raise.
C7_ValidationDisabled ==
    (orch = "ready" /\ api_key /\ ~use_validation) =>
        \A r \in Runs :
            /\ Occurrences(run[r].trace, "validator_start") = 0
            /\ run[r].pc \notin ValidatorAwaits
            /\ run[r].validated = <<>>
            /\ run[r].synth_validated \in {"unset", "None"}
            /\ "Some sources have lower credibility scores" \notin run[r].report.limitations
            /\ run[r].pc = "returned" =>
                  run[r].report.confidence_level = SynthAssessConfidence(run[r].findings, <<>>)
            /\ run[r].pc # "raised"

DecodeFailures == {"AttributeError", "TypeError"}

\* C8: no failure to decode the text of an answer leaves research() as an
\* exception.
C8_DecodeFailureRecovered ==
    \A r \in Runs : run[r].exc \notin DecodeFailures

\* C9: no transport failure of a language-model call issued by a stage
\* leaves research() as an exception.
C9_TransportFailureRecovered ==
    \A r \in Runs : run[r].exc \notin TransportFailures

\* C10: without a credential the first language-model invocation of a run
\* raises the configuration error before a request is sent; no search is
\* issued, no Validator or Synthesizer stage starts, the run is not returned,
\* and no conversation history changes.
C10_NoCredentialAborts ==
    ~api_key =>
        /\ \A a \in Agents : history[a] = <<>>
        /\ \A r \in Runs :
              /\ run[r].pc \in {"idle", "scheduled", "raised"}
              /\ run[r].pc = "raised" => run[r].exc = "ValueError"
              /\ run[r].sent = 0
              /\ run[r].issued = 0
              /\ Occurrences(run[r].trace, "validator_start") = 0
              /\ Occurrences(run[r].trace, "synthesizer_start") = 0

\* without a credential a run has been started and has raised
C10_Witness == ~api_key /\ \E r \in Runs : run[r].pc = "raised"

AgentOf(pc) ==
    CASE pc \in ResearcherAwaits \ {"await_search"} -> "Researcher"
      [] pc \in ValidatorAwaits -> "Validator"
      [] pc \in SynthesizerAwaits -> "Synthesizer"
      [] OTHER -> "none"

\* the messages of the conversation history that go out with the request run r
\* issues in this step
RequestHistory(r) == HistoryWindow(history'[AgentOf(run'[r].pc)])

\* C12: every language-model request a run issues carries, as conversation
\* history, only prompts and responses of that same run, also while other
\* invocations are in flight on the orchestrator.
C12_OwnHistoryOnly ==
    [][\A r \in Runs :
          (run'[r].sent = run[r].sent + 1) =>
              \A i \in 1..Len(RequestHistory(r)) : RequestHistory(r)[i].run = r]_vars

\* searches of run r that ended without results (under SpecParallel: that raised)
FailedSearches(r) == run[r].issued - run[r].collected

TotalFailedSearches == SumSeq([r \in 1..batch.queries |-> FailedSearches(r)])

LlmFailures == TransportFailures \cup DecodeFailures \cup {"ValueError", "TimeoutError"}

\* a batch in which exactly one search-tool call has failed and nothing else
OneToolCallFailed ==
    /\ batch.state = "done"
    /\ TotalFailedSearches = 1
    /\ \A r \in 1..batch.queries : run[r].exc \notin LlmFailures

\* C13 as stated: when the queries are fanned out by research_parallel and
\* exactly one search-tool call fails inside one run, the returned set has
\* one result less than there are queries and the failure count is 1.
C13_OneToolFailureDropsOneRun ==
    OneToolCallFailed =>
        /\ Len(batch.valid_results) = batch.queries - 1
        /\ batch.failed_count = 1

\* C13 as amended: a failing search-tool call is skipped inside its run and
\* does not remove the run from the batch: a run with failed searches and no
\* failed language-model call is in the returned set, and with exactly one
\* failing search-tool call and no other failure the returned set holds
\* every query and the failure count is 0.
C13_ToolFailureSkipped ==
    batch.state = "done" =>
        /\ \A r \in 1..batch.queries :
              (FailedSearches(r) >= 1 /\ run[r].exc \notin LlmFailures) =>
                  /\ run[r].pc = "returned"
                  /\ \E i \in 1..Len(batch.valid_results) : batch.valid_results[i] = r
        /\ OneToolCallFailed =>
              /\ Len(batch.valid_results) = batch.queries
              /\ batch.failed_count = 0

\* a batch has ended in which exactly one search-tool call failed
C13_Witness == OneToolCallFailed /\ batch.queries = NumRuns

\* C14: the language-model requests issued while validating Finding i are
\* determined by Finding i alone: the conversation history that goes out
\* with a Validator request holds nothing about any other Finding.
C14_RequestOfFindingOnly ==
    [][\A r \in SoloRuns :
          (run'[r].sent = run[r].sent + 1 /\ run'[r].pc \in ValidatorAwaits) =>
              \A k \in 1..Len(RequestHistory(r)) :
                  RequestHistory(r)[k].about = Len(run'[r].validated) + 1]_vars

\* C15: in every validation record the source credibility, the content
\* credibility (tenths) and the combined credibility (hundredths) lie in [0,1].
C15_ScoresInUnitInterval ==
    \A r \in Runs : \A i \in 1..Len(run[r].validated) :
        /\ run[r].validated[i].source_score \in 0..10
        /\ run[r].validated[i].content_score \in 0..10
        /\ run[r].validated[i].overall_credibility \in 0..100

\* C16: the Validator yields one validation record per Finding, in Finding
\* order: record i embeds Finding i, once the stage has ended there are as
\* many records as Findings, and entry i of the text the Synthesizer
\* prepares is Finding i annotated with the credibility of the record that
\* embeds Finding i.
C16_OneRecordPerFindingInOrder ==
    \A r \in Runs :
        /\ Len(run[r].validated) <= Len(run[r].findings)
        /\ \A i \in 1..Len(run[r].validated) :
              run[r].validated[i].original_finding = run[r].findings[i]
        /\ Occurrences(run[r].trace, "validator_done") = 1 =>
              Len(run[r].validated) = Len(run[r].findings)
        /\ run[r].synth_validated = "list" =>
              \A i \in 1..Len(run[r].findings) :
                  LET entry == PrepareFindingsText(run[r].findings, run[r].validated)[i]
                  IN  /\ entry.annotated
                      /\ entry.finding = run[r].validated[i].original_finding
                      /\ entry.credibility = run[r].validated[i].overall_credibility

\* two different Findings have been validated and handed to the Synthesizer
C16_Witness ==
    \E r \in Runs :
        /\ run[r].synth_validated = "list"
        /\ Len(run[r].findings) = 2
        /\ run[r].findings[1] # run[r].findings[2]
        /\ run[r].validated[1].overall_credibility # run[r].validated[2].overall_credibility

\* C17: when _evaluate_source has returned for Finding i and the answer
\* carried no score, the source credibility of Finding i is 0.3 (so below
\* 0.5) and the diagnostic concern is recorded.
C17_NoScoreGivesConservativeDefault ==
    \A r \in Runs : \A i \in 1..Len(run[r].score_found) :
        ~run[r].score_found[i] =>
            /\ i <= Len(run[r].validated) =>
                  /\ run[r].validated[i].source_score = DefaultSourceScore
                  /\ run[r].validated[i].source_concerns = SourceDiagnostic
            /\ i > Len(run[r].validated) =>
                  /\ run[r].src_score = DefaultSourceScore
                  /\ run[r].src_concerns = SourceDiagnostic

\* C18: in every Plan each dependency id of each Task is the id of a Task
\* of the same Plan that precedes it.
C18_DependenciesValid ==
    planner.pc = "returned" =>
        \A i \in 1..Len(planner.tasks) : \A d \in planner.tasks[i].dependencies :
            \E j \in 1..(i - 1) : planner.tasks[j].id = d

\* C19: the number of Tasks of a Plan is at most the ceiling of its
\* complexity (simple 2, moderate 4, complex 6).
C19_TaskCountWithinCeiling ==
    planner.pc = "returned" => Len(planner.tasks) <= MaxTasksOf(planner.complexity)

\* C20: every Plan has at least one Task, and when the answer to the task
\* request cannot be decoded or carries no task the Plan holds exactly the
\* fallback Task: the full query, the research role, no dependencies.
C20_PlanNeverEmpty ==
    planner.pc = "returned" =>
        /\ planner.tasks # <<>>
        /\ planner.tasks_answer \in {"undecodable", "empty"} =>
              planner.tasks = <<FallbackTask>>

\* C21: the key insights of every Report are a non-empty list:
\* _extract_key_insights never hands back an empty list (or no list), and
\* a returned run's report holds insights or the single sentinel.
C21_KeyInsightsNonEmpty ==
    \A r \in Runs :
        /\ run[r].insights \in {"unset", "list", InsightSentinel}
        /\ run[r].pc = "returned" =>
              run[r].report.key_insights \in {"list", InsightSentinel}

\* C23: _assess_complexity hands back one of simple, moderate, complex, and
\* _generate_tasks is only entered with a tier that has a ceiling (its
\* lookup never raises KeyError).
C23_ComplexityIsTier ==
    /\ planner.complexity \in ComplexityTiers \cup {"unset"}
    /\ planner.pc = "await_generate_tasks" => planner.max_tasks = MaxTasksOf(planner.complexity)

\* run r is past _plan_searches and the Researcher has not raised
PlanSearchesReturned(r) ==
    run[r].pc \in ((ResearcherAwaits \ {"await_plan_searches"}) \cup ValidatorAwaits
                      \cup SynthesizerAwaits \cup {"returned"})

\* C24: _plan_searches hands back between 1 and max_searches queries for
\* every answer of the model, and never leaves the Researcher by an
\* exception of its parsing.
C24_PlannedWithinBounds ==
    \A r \in SoloRuns :
        /\ PlanSearchesReturned(r) =>
              /\ run[r].planned >= 1
              /\ run[r].planned <= max_searches
        /\ (run[r].pc = "raised" /\ Occurrences(run[r].trace, "researcher_done") = 0) =>
              run[r].exc \notin {"AttributeError", "TypeError"}

\* the search loop of run r is over
SearchesOver(r) ==
    run[r].pc \notin {"idle", "scheduled", "await_plan_searches", "await_search"}

\* C25: a search-tool invocation that raises is skipped: the step in which
\* an invocation ends, by an exception or not, does not leave the
\* Researcher stage, keeps what was collected and invokes the next planned
\* search when one remains; when the loop is over every planned search has
\* been invoked and the run has not ended with the tool's exception,
\* whichever invocations fail.
C25_FailedSearchSkipped ==
    /\ [](\A r \in SoloRuns :
            /\ run[r].exc # "SearchError"
            /\ run[r].collected <= run[r].issued
            /\ run[r].issued <= run[r].planned
            /\ SearchesOver(r) => run[r].issued = run[r].planned)
    /\ [][\A r \in SoloRuns :
            (run[r].pc = "await_search" /\ run'[r] # run[r]) =>
                /\ run'[r].pc # "raised"
                /\ run'[r].collected >= run[r].collected
                /\ run[r].issued < run[r].planned =>
                      (run'[r].pc = "await_search" /\ run'[r].issued = run[r].issued + 1)
                /\ run[r].issued = run[r].planned =>
                      (run'[r].pc # "await_search" /\ run'[r].issued = run[r].issued)]_vars

\* a run has returned after some, not all, of its several searches raised
C25_Witness ==
    \E r \in SoloRuns :
        /\ run[r].pc = "returned"
        /\ run[r].planned >= 3
        /\ FailedSearches(r) >= 2
        /\ run[r].collected >= 1

\* C26: when the searches have collected no raw result, _extract_findings
\* gives no finding and _generate_summary the sentinel, and neither sends a
\* request: the search plan stays the only exchange of the Researcher.
C26_NoResultsNoServiceCall ==
    \A r \in SoloRuns :
        (SearchesOver(r) /\ run[r].collected = 0) =>
            /\ run[r].pc \notin {"await_extract_findings", "await_generate_summary"}
            /\ Occurrences(run[r].trace, "researcher_done") = 1 =>
                  /\ run[r].findings = <<>>
                  /\ run[r].summary = SummarySentinel
                  /\ Len(history["Researcher"]) = 2

\* a run has returned although none of its searches gave a raw result
C26_Witness ==
    \E r \in SoloRuns :
        /\ run[r].pc = "returned"
        /\ run[r].issued >= 2
        /\ run[r].collected = 0
        /\ run[r].summary = SummarySentinel

\* a conversation history made of whole exchanges: a prompt, then the
\* answer to that prompt
WholeExchanges(h) ==
    /\ Len(h) % 2 = 0
    /\ \A i \in 1..Len(h) :
          /\ h[i].role = IF i % 2 = 1 THEN "user" ELSE "assistant"
          /\ i % 2 = 0 => (h[i].run = h[i - 1].run /\ h[i].about = h[i - 1].about)

\* run r leaves call_llm by an exception in this step
CallLlmFails(r) ==
    /\ run[r].pc # "raised"
    /\ run'[r].pc = "raised"
    /\ run'[r].exc \in TransportFailures \cup {"ValueError", "TimeoutError"}

\* C29: call_llm changes the conversation history only when it succeeds, by
\* appending the prompt and the answer in one step: a step in which a call
\* fails leaves every history as it was, a step that changes a history
\* appends one whole exchange to one history, and every history has even
\* length and alternates user/assistant, with invocations interleaved.
C29_HistoryWholeExchanges ==
    /\ [](\A a \in Agents : WholeExchanges(history[a]))
    /\ [][(\E r \in Runs : CallLlmFails(r)) => history' = history]_vars
    /\ [][history' # history =>
            \E a \in Agents :
                /\ Len(history'[a]) = Len(history[a]) + 2
                /\ IsPrefix(history[a], history'[a])
                /\ \A b \in Agents \ {a} : history'[b] = history[b]]_vars

\* the exchanges of two invocations are interleaved in one history, and a
\* call of one of them has failed
C29_Witness ==
    /\ \E a \in Agents :
          /\ Len(history[a]) >= 6
          /\ history[a][1].run # history[a][3].run
          /\ history[a][5].run = history[a][1].run
    /\ \E r \in Runs : run[r].pc = "raised" /\ run[r].exc = "ClientError"

\* C30: research_parallel returns the successful runs in input-query order
\* whatever the order in which they completed: the returned list holds
\* every returned run once, by increasing input position, and the query of
\* each returned result is the query at that input position.
C30_ResultsInInputOrder ==
    batch.state = "done" =>
        /\ \A i, j \in 1..Len(batch.valid_results) :
              i < j => batch.valid_results[i] < batch.valid_results[j]
        /\ \A i \in 1..Len(batch.valid_results) :
              /\ batch.valid_results[i] \in 1..batch.queries
              /\ run[batch.valid_results[i]].pc = "returned"
              /\ run[batch.valid_results[i]].query = batch.valid_results[i]
        /\ \A r \in 1..batch.queries :
              run[r].pc = "returned" =>
                  \E i \in 1..Len(batch.valid_results) : batch.valid_results[i] = r

\* a batch has ended in which a later query completed before an earlier one
\* and both are returned
C30_Witness ==
    /\ batch.state = "done"
    /\ Len(batch.valid_results) >= 2
    /\ \E i, j \in 1..Len(batch.valid_results) :
          /\ i < j
          /\ CompletedAt(batch.valid_results[j]) < CompletedAt(batch.valid_results[i])


(***************************************************************************)
(* Extraction of a JSON payload from an answer.  A text is a sequence of   *)
(* tokens: a fence (three backticks) with or without the json tag, a       *)
(* brace, the content of an object, or a word of prose.  Whitespace is     *)
(* left out, every step strips it.                                         *)
(***************************************************************************)
MaxPayloadLen == 4
MaxProse == 2

FenceJson == "fence json"
Fence == "fence"
\* a split at the plain fence also splits at the fence that carries the json tag
AnyFence == {Fence, FenceJson}

\* the call sites that consume structured output
ExtractionSites ==
    {"decide_tool_use", "_plan_searches", "_extract_findings", "_assess_complexity",
     "_generate_tasks", "_evaluate_source", "_validate_content",
     "_extract_key_insights", "_identify_contradictions"}

\* the call sites whose cleaning looks for the object inside surrounding text:
\* Agent.decide_tool_use (base_agent.py:306-312) and _plan_searches
\* (researcher.py:227-233) go from the fences straight to json.loads
SlicesObject(site) == site \notin {"decide_tool_use", "_plan_searches"}

\* str.find over tokens: the first position holding a token of S, 0 for none
Find(t, S) ==
    IF \E i \in 1..Len(t) : t[i] \in S
    THEN CHOOSE i \in 1..Len(t) : t[i] \in S /\ \A j \in 1..(i - 1) : t[j] \notin S
    ELSE 0

\* str.rfind over tokens: the last position holding a token of S, 0 for none
RFind(t, S) ==
    IF \E i \in 1..Len(t) : t[i] \in S
    THEN CHOOSE i \in 1..Len(t) : t[i] \in S /\ \A j \in (i + 1)..Len(t) : t[j] \notin S
    ELSE 0

\* text.split(sep)[0]
SplitHead(t, S) == IF Find(t, S) = 0 THEN t ELSE SubSeq(t, 1, Find(t, S) - 1)

\* text.split(sep)[1], for a text that holds sep
SplitSecond(t, S) == SplitHead(SubSeq(t, Find(t, S) + 1, Len(t)), S)

\* the fence steps every call site starts with (e.g. planner.py:173-177)
StripFences(t) ==
    IF t # <<>> /\ t[1] = FenceJson
    THEN SplitHead(SplitSecond(t, {FenceJson}), AnyFence)
    ELSE IF t # <<>> /\ t[1] \in AnyFence
    THEN SplitHead(SplitSecond(t, AnyFence), AnyFence)
    ELSE t

\* the slice from the first "{" to the last "}" (e.g. planner.py:179-183)
SliceObject(t) ==
    IF t # <<>> /\ t[1] = "{" THEN t
    ELSE IF Find(t, {"{"}) # 0 /\ RFind(t, {"}"}) >= Find(t, {"{"})
    THEN SubSeq(t, Find(t, {"{"}), RFind(t, {"}"}))
    ELSE t

\* the cleaning of a call site, up to its json.loads
CleanResponse(site, t) ==
    IF SlicesObject(site) THEN SliceObject(StripFences(t)) ELSE StripFences(t)

RECURSIVE Depth(_, _)
\* the nesting depth after the first i tokens of t
Depth(t, i) ==
    IF i = 0 THEN 0
    ELSE Depth(t, i - 1) + (CASE t[i] = "{" -> 1 [] t[i] = "}" -> -1 [] OTHER -> 0)

\* json.loads accepts the text: one object, braces balanced, nothing around it
IsObject(t) ==
    /\ Len(t) >= 2
    /\ t[1] = "{"
    /\ \A i \in 1..Len(t) : t[i] \in {"{", "}", "k"}
    /\ \A i \in 1..(Len(t) - 1) : Depth(t, i) >= 1
    /\ Depth(t, Len(t)) = 0

\* the payloads: the well-formed objects of up to MaxPayloadLen tokens
Payloads ==
    {t \in UNION {[1..n -> {"{", "}", "k"}] : n \in 2..MaxPayloadLen} : IsObject(t)}

Wraps == {"alone", "fenced_json", "fenced", "prose"}

\* payload P as the model can answer it: alone, in a fenced code block with
\* or without the json tag, or after n words of prose
Wrapped(P, wrap, n) ==
    CASE wrap = "fenced_json" -> <<FenceJson>> \o P \o <<Fence>>
      [] wrap = "fenced" -> <<Fence>> \o P \o <<Fence>>
      [] wrap = "prose" -> [i \in 1..n |-> "w"] \o P
      [] OTHER -> P

\* the answer reaches the parsing code of a call site
InitExtraction ==
    /\ args = [use_validation |-> FALSE, max_searches |-> 1, use_planner |-> "absent"]
    /\ api_key = TRUE
    /\ orch = "new"
    /\ use_validation = FALSE
    /\ max_searches = 0
    /\ history = [a \in Agents |-> <<>>]
    /\ run = [r \in Runs |-> NewRun]
    /\ batch = NoBatch
    /\ planner = NewPlanner
    /\ \E site \in ExtractionSites, P \in Payloads, wrap \in Wraps, n \in 1..MaxProse :
          calc = [NoCalc EXCEPT !.op = "extract", !.stage = "response", !.site = site,
                                !.wrap = wrap, !.payload = P, !.text = Wrapped(P, wrap, n)]

\* the cleaning steps between call_llm and json.loads
Clean ==
    /\ calc.op = "extract"
    /\ calc.stage = "response"
    /\ calc' = [calc EXCEPT !.stage = "cleaned", !.text = CleanResponse(calc.site, calc.text)]
    /\ UNCHANGED <<planner, args, api_key, orch, use_validation, max_searches, history, run,
                   batch>>

\* json.loads on the cleaned text: the structure, or JSONDecodeError and the
\* call site's fallback
Loads ==
    /\ calc.op = "extract"
    /\ calc.stage = "cleaned"
    /\ calc' = [calc EXCEPT !.stage = "parsed", !.ok = IsObject(calc.text),
                            !.text = IF IsObject(calc.text) THEN calc.text ELSE <<>>]
    /\ UNCHANGED <<planner, args, api_key, orch, use_validation, max_searches, history, run,
                   batch>>

NextExtraction == Clean \/ Loads

SpecExtraction == InitExtraction /\ [][NextExtraction]_vars

\* C22: at every call site that consumes structured output a payload in a
\* fenced code block, and a payload after prose, parse to the structure the
\* payload alone parses to.
C22_ExtractionIdempotent ==
    (calc.op = "extract" /\ calc.stage = "parsed") =>
        /\ calc.ok = IsObject(CleanResponse(calc.site, calc.payload))
        /\ calc.ok => calc.text = CleanResponse(calc.site, calc.payload)


(***************************************************************************)
(* SpecConfidence: the two confidence rules applied to every list of up to *)
(* MaxAssessed findings: the Researcher's rule, then the Synthesizer's     *)
(* rule with no validation or with one validation record per finding.      *)
(***************************************************************************)
MaxAssessed == 4

AssessedRelevances == {"High", "Medium", "Low"}
\* combined credibilities in hundredths: below, at and above the band limits
CredibilityValues == {40, 50, 70}

AssessedFindings ==
    UNION {[1..n -> [relevance : AssessedRelevances, source : {"nature.com"}]]
              : n \in 0..MaxAssessed}

\* no validation (None), or one validation record per finding
ValidationsOf(findings) ==
    {<<>>} \cup [1..Len(findings) -> [overall_credibility : CredibilityValues]]

InitConfidence ==
    /\ args = [use_validation |-> FALSE, max_searches |-> 1, use_planner |-> "absent"]
    /\ api_key = TRUE
    /\ orch = "new"
    /\ use_validation = FALSE
    /\ max_searches = 0
    /\ history = [a \in Agents |-> <<>>]
    /\ run = [r \in Runs |-> NewRun]
    /\ batch = NoBatch
    /\ planner = NewPlanner
    /\ \E fs \in AssessedFindings : \E vs \in ValidationsOf(fs) :
          calc = [NoCalc EXCEPT !.op = "confidence", !.stage = "findings",
                                !.findings = fs, !.validated = vs]

\* researcher.py:176: the Researcher assesses its findings
ResearcherAssess ==
    /\ calc.op = "confidence"
    /\ calc.stage = "findings"
    /\ calc' = [calc EXCEPT !.stage = "researched",
                            !.confidence = ResearcherAssessConfidence(calc.findings)]
    /\ UNCHANGED <<planner, args, api_key, orch, use_validation, max_searches, history, run,
                   batch>>

\* synthesizer.py:139: the Synthesizer assesses the findings and their validation
SynthesizerAssess ==
    /\ calc.op = "confidence"
    /\ calc.stage = "researched"
    /\ calc' = [calc EXCEPT !.stage = "synthesized",
                            !.confidence_level =
                                SynthAssessConfidence(calc.findings, calc.validated)]
    /\ UNCHANGED <<planner, args, api_key, orch, use_validation, max_searches, history, run,
                   batch>>

NextConfidence == ResearcherAssess \/ SynthesizerAssess

SpecConfidence == InitConfidence /\ [][NextConfidence]_vars

\* the number of findings of relevance High
HighCount(findings) == Cardinality({i \in 1..Len(findings) : findings[i].relevance = "High"})

\* C27: the Researcher's confidence is High exactly when there are at least
\* 3 findings of which at least 2 are of High relevance, otherwise Medium
\* exactly when there are at least 2 findings, otherwise Low: 4 High
\* findings give High, no finding gives Low, exactly 2 findings give at
\* least Medium.
C27_ResearcherConfidenceRule ==
    (calc.op = "confidence" /\ calc.stage # "findings") =>
        LET n == Len(calc.findings)
            high == n >= 3 /\ HighCount(calc.findings) >= 2
        IN  /\ calc.confidence = "High" <=> high
            /\ calc.confidence = "Medium" <=> (~high /\ n >= 2)
            /\ calc.confidence = "Low" <=> (~high /\ n < 2)
            /\ (n = 4 /\ HighCount(calc.findings) = 4) => calc.confidence = "High"
            /\ n = 0 => calc.confidence = "Low"
            /\ n = 2 => calc.confidence \in {"Medium", "High"}

\* three or more findings of which one is of High relevance were assessed
C27_Witness ==
    /\ calc.op = "confidence"
    /\ calc.stage = "researched"
    /\ Len(calc.findings) >= 3
    /\ HighCount(calc.findings) = 1
    /\ calc.confidence = "Medium"

TierRank(tier) == CASE tier = "High" -> 3 [] tier = "Medium" -> 2 [] OTHER -> 1

\* C28: the Synthesizer's confidence is the bucket of the points for the
\* number of findings plus the points for the average combined
\* credibility; without validation the tier is the one the same findings
\* get with an average in the middle band, and from 2 findings on it is
\* above the tier they get with a low average.
C28_SynthesizerConfidenceRule ==
    (calc.op = "confidence" /\ calc.stage = "synthesized") =>
        LET n == Len(calc.findings)
            total == SumSeq(Overalls(calc.validated))
            count_points == IF n >= 4 THEN 2 ELSE IF n >= 2 THEN 1 ELSE 0
            neutral == <<[overall_credibility |-> 60]>>
            low == <<[overall_credibility |-> 40]>>
            points == count_points
                      + (IF calc.validated = <<>> THEN 1
                         ELSE IF total >= 70 * Len(calc.validated) THEN 2
                         ELSE IF total >= 50 * Len(calc.validated) THEN 1
                         ELSE 0)
        IN  /\ n = 0 => calc.confidence_level = "Low"
            /\ n > 0 => calc.confidence_level =
                            (IF points >= 3 THEN "High"
                             ELSE IF points >= 2 THEN "Medium" ELSE "Low")
            /\ calc.validated = <<>> =>
                  /\ calc.confidence_level = SynthAssessConfidence(calc.findings, neutral)
                  /\ n >= 2 => TierRank(calc.confidence_level)
                                  > TierRank(SynthAssessConfidence(calc.findings, low))

\* four findings without validation were assessed
C28_Witness ==
    /\ calc.op = "confidence"
    /\ calc.stage = "synthesized"
    /\ calc.validated = <<>>
    /\ Len(calc.findings) = 4
    /\ calc.confidence_level = "High"

=============================================================================
